---- MODULE Spec2Model ----
(***************************************************************************)
(* Model of akula's account change-set walker (src/changeset/account.rs)   *)
(* and of the sentry status conversion (src/sentry/eth.rs).                *)
(*                                                                         *)
(* Bytes are sequences of numbers 0..255.  An Option is <<>> (None) or     *)
(* <<x>> (Some(x)).  The dup-sort bucket is a set of (db_key, db_value)    *)
(* pairs read through a cursor in byte-lexicographic order.                *)
(***************************************************************************)
EXTENDS Integers, Sequences, FiniteSets, TLC

\* ------------------------------------------------------------------------
\* Program constants and model bounds
\* ------------------------------------------------------------------------

\* common::ADDRESS_LENGTH: the width of Walker::Key for the account bucket.
ADDRESS_LENGTH == 20

\* Width of an encoded block number (block numbers are u64).
BLOCK_NUMBER_LENGTH == 8

\* Most blocks written into the bucket.
MaxStored == 2

\* Most insert calls made on one ChangeSet.
MaxInserts == 3

\* Longest fork list of a sentry StatusData drawn as an input.
MaxForks == 2

\* Block numbers drawn as inputs; 256 needs the second-lowest byte.
BlockSamples == {1, 2, 256}

None == <<>>

Some(x) == <<x>>

\* ------------------------------------------------------------------------
\* Bytes
\* ------------------------------------------------------------------------

\* Byte-lexicographic order on byte strings (a proper prefix sorts first):
\* the order of the store's keys and of the duplicates of one key.
RECURSIVE LexLess(_, _)
LexLess(a, b) ==
    IF a = <<>> THEN b # <<>>
    ELSE IF b = <<>> THEN FALSE
    ELSE IF Head(a) # Head(b) THEN Head(a) < Head(b)
    ELSE LexLess(Tail(a), Tail(b))

\* An address whose first byte is hi and whose last byte is lo.
Addr(hi, lo) ==
    [i \in 1..ADDRESS_LENGTH |-> IF i = 1 THEN hi ELSE IF i = ADDRESS_LENGTH THEN lo ELSE 0]

\* The sampled account keys.  Lexicographic order (first byte) and the order
\* of the last byte disagree on them.
Keys == {Addr(1, 2), Addr(2, 1)}

\* The sampled prior values, the empty one ("previously did not exist") included.
Values == {<<>>, <<7>>}

Changes == [key : Keys, value : Values]

\* A stored value too short to hold an address.  It sorts between the two keys.
ShortValues == {<<2>>}

\* ------------------------------------------------------------------------
\* Change / ChangeSet
\* ------------------------------------------------------------------------

\* Change::new
Change_new(k, v) == [key |-> k, value |-> v]

\* ChangeSet::default
ChangeSet_default == <<>>

\* A ChangeSet that keeps every inserted Change, equal keys included.
ChangeSet_insert_dup(cs, c, keepOld) ==
    LET n == Cardinality({i \in 1..Len(cs) : ~LexLess(c.key, cs[i].key)})
    IN  IF \E i \in 1..Len(cs) : cs[i] = c THEN cs
        ELSE SubSeq(cs, 1, n) \o <<c>> \o SubSeq(cs, n + 1, Len(cs))

\* ChangeSet::insert: the set is kept sorted by key and holds one Change per
\* key.  Which of two Changes with one key survives is left open (keepOld).
ChangeSet_insert(cs, c, keepOld) ==
    LET n == Cardinality({i \in 1..Len(cs) : LexLess(cs[i].key, c.key)})
    IN  IF \E i \in 1..Len(cs) : cs[i].key = c.key
        THEN IF keepOld THEN cs
             ELSE [i \in 1..Len(cs) |-> IF cs[i].key = c.key THEN c ELSE cs[i]]
        ELSE SubSeq(cs, 1, n) \o <<c>> \o SubSeq(cs, n + 1, Len(cs))

SetOf(s) == {s[i] : i \in 1..Len(s)}

\* ------------------------------------------------------------------------
\* Bucket codec
\* ------------------------------------------------------------------------

\* Little-endian bytes of b.
RECURSIVE encode_block_number_le(_, _)
encode_block_number_le(b, n) ==
    IF n = 0 THEN <<>> ELSE <<b % 256>> \o encode_block_number_le(b \div 256, n - 1)

\* Big-endian bytes of b, n bytes wide.
RECURSIVE be_bytes(_, _)
be_bytes(b, n) ==
    IF n = 0 THEN <<>> ELSE Append(be_bytes(b \div 256, n - 1), b % 256)

\* encode_block_number: the db_key of block b.
encode_block_number(b) == be_bytes(b, BLOCK_NUMBER_LENGTH)

\* u64::from_be_bytes
RECURSIVE from_be_bytes(_)
from_be_bytes(s) ==
    IF s = <<>> THEN 0 ELSE from_be_bytes(SubSeq(s, 1, Len(s) - 1)) * 256 + s[Len(s)]

\* An encoder that writes the block number little-endian.
encode_le(b, cs) ==
    [i \in 1..Len(cs) |->
        [k |-> encode_block_number_le(b, BLOCK_NUMBER_LENGTH), v |-> cs[i].key \o cs[i].value]]

\* Bucket::encode for PlainAccountChangeSet: one pair per Change, in the
\* ChangeSet's key order.
encode(b, cs) ==
    [i \in 1..Len(cs) |-> [k |-> encode_block_number(b), v |-> cs[i].key \o cs[i].value]]

Panic == [tag |-> "panic"]

\* from_account_db_format: the fixed split of db_value at ADDRESS_LENGTH.  It
\* returns a plain tuple, so a db_value with no room for an address has no
\* error to return: the split panics.
from_account_db_format(db_key, db_value) ==
    IF Len(db_value) < ADDRESS_LENGTH THEN Panic
    ELSE [tag |-> "ok",
          b   |-> from_be_bytes(db_key),
          k   |-> SubSeq(db_value, 1, ADDRESS_LENGTH),
          v   |-> SubSeq(db_value, ADDRESS_LENGTH + 1, Len(db_value))]

\* The closure with the copy into k forgotten: k stays [0; ADDRESS_LENGTH].
walk_decoder_nocopy(db_key, db_value) ==
    LET r == from_account_db_format(db_key, db_value)
    IN  IF r.tag = "panic" THEN Panic
        ELSE [tag |-> "ok", b |-> r.b, k |-> [i \in 1..ADDRESS_LENGTH |-> 0], v |-> r.v]

\* The decode closure of AccountChangeSetPlain::walk.  copy_from_slice panics
\* unless k1 is exactly ADDRESS_LENGTH long.
walk_decoder(db_key, db_value) ==
    LET r == from_account_db_format(db_key, db_value)
    IN  IF r.tag = "panic" THEN Panic
        ELSE IF Len(r.k) # ADDRESS_LENGTH THEN Panic
        ELSE [tag |-> "ok", b |-> r.b, k |-> [i \in 1..ADDRESS_LENGTH |-> r.k[i]], v |-> r.v]

\* Bucket::decode for PlainAccountChangeSet, as the test calls it.
Bucket_decode(db_key, db_value) == walk_decoder(db_key, db_value)

\* The test's loop with the value dropped from the rebuilt Change.
RECURSIVE decode_all_novalue(_, _)
decode_all_novalue(enc, acc) ==
    IF enc = <<>> THEN [tag |-> "ok", ch |-> acc]
    ELSE LET d == Bucket_decode(Head(enc).k, Head(enc).v)
         IN  IF d.tag = "panic" THEN Panic
             ELSE decode_all_novalue(Tail(enc), ChangeSet_insert(acc, Change_new(d.k, <<>>), TRUE))

\* The loop of tests::account_encoding: decode every encoded pair and insert
\* the Change into ch2 (acc).
RECURSIVE decode_all(_, _)
decode_all(enc, acc) ==
    IF enc = <<>> THEN [tag |-> "ok", ch |-> acc]
    ELSE LET d == Bucket_decode(Head(enc).k, Head(enc).v)
         IN  IF d.tag = "panic" THEN Panic
             ELSE decode_all(Tail(enc), ChangeSet_insert(acc, Change_new(d.k, d.v), TRUE))

\* ------------------------------------------------------------------------
\* CursorDupSort over the bucket
\* ------------------------------------------------------------------------

PairLess(p, q) == LexLess(p.k, q.k) \/ (p.k = q.k /\ LexLess(p.v, q.v))

\* The first pair of S in cursor order, if any.
First(S) ==
    IF S = {} THEN None
    ELSE Some(CHOOSE p \in S : \A q \in S : q = p \/ PairLess(p, q))

\* Cursor::seek: the first pair whose key is >= key.
seek(bucket, key) == First({p \in bucket : ~LexLess(p.k, key)})

\* Cursor::next: the pair after p.
next(bucket, p) == First({q \in bucket : PairLess(p, q)})

\* CursorDupSort::seek_both_range: within the duplicates of exactly key, the
\* first value >= value.
seek_both_range(bucket, key, value) ==
    First({p \in bucket : p.k = key /\ ~LexLess(p.v, value)})

\* ------------------------------------------------------------------------
\* Walker
\* ------------------------------------------------------------------------

NoStream ==
    [st |-> "idle", from |-> 0, to |-> 0, seeked |-> FALSE, cur |-> None, out |-> <<>>]

\* storage_utils::walk: the stream is created unpolled; nothing is read yet.
storage_utils_walk(from, to) ==
    [st |-> "active", from |-> from, to |-> to, seeked |-> FALSE, cur |-> None, out |-> <<>>]

\* walk with the bounds passed in the wrong order.
walk_swapped(from, to) == storage_utils_walk(to, from)

\* AccountChangeSetPlain::walk: storage_utils::walk over the borrowed cursor
\* with the account decode closure, from and to.
walk(from, to) == storage_utils_walk(from, to)

\* One poll of the stream of storage_utils::walk.  The first poll seeks to
\* the first db_key >= from, a later one moves the cursor on; the pair under
\* the cursor is decoded, the stream ends once its block is past `to` or the
\* bucket is exhausted, and otherwise the decoded triple is yielded.  A
\* failing cursor call ends the stream with the store's error.
poll(w, bucket, ioFail) ==
    LET cur == IF w.seeked THEN next(bucket, w.cur[1])
               ELSE seek(bucket, encode_block_number(w.from))
        d   == walk_decoder(cur[1].k, cur[1].v)
    IN  IF ioFail THEN [w EXCEPT !.st = "store_error", !.seeked = TRUE]
        ELSE IF cur = None THEN [w EXCEPT !.st = "done", !.seeked = TRUE, !.cur = cur]
        ELSE IF d.tag = "panic" THEN [w EXCEPT !.st = "panic", !.seeked = TRUE, !.cur = cur]
        ELSE IF d.b > w.to THEN [w EXCEPT !.st = "done", !.seeked = TRUE, !.cur = cur]
        ELSE [w EXCEPT !.seeked = TRUE, !.cur = cur,
                       !.out = Append(w.out, [b |-> d.b, key |-> d.k, value |-> d.v])]

OkSome(v) == [tag |-> "some", v |-> v]

OkNone == [tag |-> "none"]

Err(e) == [tag |-> "err", e |-> e]

\* find_in_account_changeset: seek to the duplicates of exactly block_number,
\* at the first value >= key, and answer its value when its embedded key is
\* key.  A failing cursor call is returned as it is.
find_in_account_changeset(bucket, block_number, key, ioFail) ==
    LET e == seek_both_range(bucket, encode_block_number(block_number), key)
        d == from_account_db_format(e[1].k, e[1].v)
    IN  IF ioFail THEN Err("StoreError")
        ELSE IF e = None THEN OkNone
        ELSE IF d.tag = "panic" THEN Panic
        ELSE IF d.k = key THEN OkSome(d.v)
        ELSE OkNone

\* A lookup that answers from the first record at or after block_number that
\* holds key.
find_at_or_after(bucket, block_number, key, ioFail) ==
    LET S == {p \in bucket : /\ ~LexLess(p.k, encode_block_number(block_number))
                             /\ Len(p.v) >= ADDRESS_LENGTH
                             /\ SubSeq(p.v, 1, ADDRESS_LENGTH) = key}
        e == First(S)
    IN  IF ioFail THEN Err("StoreError")
        ELSE IF e = None THEN OkNone
        ELSE OkSome(SubSeq(e[1].v, ADDRESS_LENGTH + 1, Len(e[1].v)))

\* AccountChangeSetPlain::find
find(bucket, block_number, k, ioFail) ==
    find_in_account_changeset(bucket, block_number, k, ioFail)

\* ------------------------------------------------------------------------
\* Sentry status conversion
\* ------------------------------------------------------------------------

\* Vec<u64> collected into a BTreeSet<u64>, as the ascending sequence of its
\* elements.
RECURSIVE collect(_)
collect(forks) ==
    IF forks = <<>> THEN <<>>
    ELSE LET rest == collect(SubSeq(forks, 1, Len(forks) - 1))
             x    == forks[Len(forks)]
             n    == Cardinality({i \in 1..Len(rest) : rest[i] < x})
         IN  IF \E i \in 1..Len(rest) : rest[i] = x THEN rest
             ELSE SubSeq(rest, 1, n) \o <<x>> \o SubSeq(rest, n + 1, Len(rest))

\* ForkFilter::new(max_block, genesis, forks), kept as its arguments.
ForkFilter_new(max_block, genesis, forks) ==
    [max_block |-> max_block, genesis |-> genesis, forks |-> forks]

\* The conversion with a missing total difficulty defaulted to zero.
try_from_lenient(value) ==
    IF value.fork_data = None THEN Err("no fork data")
    ELSE IF value.fork_data[1].genesis = None THEN Err("no genesis")
    ELSE IF value.best_hash = None THEN Err("no best hash")
    ELSE [tag |-> "ok",
          status |-> [network_id |-> value.network_id,
                      total_difficulty |->
                          IF value.total_difficulty = None THEN 0
                          ELSE value.total_difficulty[1],
                      best_hash |-> value.best_hash[1],
                      fork_data |-> [genesis |-> value.fork_data[1].genesis[1],
                                     forks |-> collect(value.fork_data[1].forks)]],
          fork_filter |-> ForkFilter_new(value.max_block, value.fork_data[1].genesis[1],
                                         value.fork_data[1].forks)]

\* impl TryFrom<ethereum_interfaces::sentry::StatusData> for FullStatusData.
\* The checks run in the order of the code: fork data, genesis, total
\* difficulty, best hash.
try_from(value) ==
    IF value.fork_data = None THEN Err("no fork data")
    ELSE IF value.fork_data[1].genesis = None THEN Err("no genesis")
    ELSE IF value.total_difficulty = None THEN Err("no total difficulty")
    ELSE IF value.best_hash = None THEN Err("no best hash")
    ELSE [tag |-> "ok",
          status |-> [network_id |-> value.network_id,
                      total_difficulty |-> value.total_difficulty[1],
                      best_hash |-> value.best_hash[1],
                      fork_data |-> [genesis |-> value.fork_data[1].genesis[1],
                                     forks |-> collect(value.fork_data[1].forks)]],
          fork_filter |-> ForkFilter_new(value.max_block, value.fork_data[1].genesis[1],
                                         value.fork_data[1].forks)]

\* ------------------------------------------------------------------------
\* State
\* ------------------------------------------------------------------------

VARIABLES
    ch,       \* the ChangeSet under construction
    inserted, \* the Changes passed to insert on ch so far, in call order
    ch2,      \* the outcome of the round trip of ch, None before it has run
    bucket,   \* the account change-set bucket: a set of (db_key, db_value)
    recorded, \* the (block, key, value) triples the encoder was given
    emitted,  \* the pairs the last encode produced, in its order
    asked,    \* the (from, to) the last walk was called with
    stream,   \* the stream a walk returned, as far as it was polled
    found,    \* the outcome of the last find, with its arguments
    sentry,   \* a sentry StatusData to convert
    full      \* the outcome of its conversion, None before it has run

vars ==
    <<ch, inserted, ch2, bucket, recorded, emitted, asked, stream, found, sentry, full>>

codec == <<ch, inserted, ch2>>

store == <<bucket, recorded, emitted>>

walker == <<asked, stream, found>>

status == <<sentry, full>>

\* The blocks the encoder has written.
Blocks == {r.b : r \in recorded}

\* The pairs of the bucket that cannot be decoded.
Malformed == {p \in bucket : Len(p.v) < ADDRESS_LENGTH}

\* No cursor is borrowed: no stream is alive and no find has been answered.
CursorFree == stream.st = "idle" /\ found = None

\* The ChangeSets n inserts can build.
RECURSIVE Built(_)
Built(n) ==
    IF n = 0 THEN {ChangeSet_default}
    ELSE LET P == Built(n - 1)
         IN  P \cup {ChangeSet_insert(cs, c, TRUE) : cs \in P, c \in Changes}

\* The ChangeSets block execution hands to the encoder.
ChangeSets == Built(Cardinality(Keys)) \ {ChangeSet_default}

\* The sentry StatusData values drawn as inputs.
ForkLists == UNION {[1..n -> {10, 20}] : n \in 0..MaxForks}

ForkData == [genesis : {None, Some("g1"), Some("g2")}, forks : ForkLists]

SentryStatus ==
    [network_id : {1, 5},
     total_difficulty : {None, Some(17)},
     best_hash : {None, Some("h1")},
     fork_data : {None} \cup {Some(f) : f \in ForkData},
     max_block : {0, 9}]

Init ==
    /\ ch = ChangeSet_default
    /\ inserted = <<>>
    /\ ch2 = None
    /\ bucket = {}
    /\ recorded = {}
    /\ emitted = <<>>
    /\ asked = <<0, 0>>
    /\ stream = NoStream
    /\ found = None
    /\ sentry \in SentryStatus
    /\ full = None

\* ------------------------------------------------------------------------
\* The codec on one ChangeSet
\* ------------------------------------------------------------------------

\* ChangeSet::default(): a fresh ChangeSet replaces the one at hand.
NewChangeSet ==
    /\ inserted # <<>>
    /\ ch' = ChangeSet_default
    /\ inserted' = <<>>
    /\ ch2' = None
    /\ emitted' = <<>>
    /\ UNCHANGED <<bucket, recorded, walker, status>>

\* ch.insert(Change::new(key, value))
Insert(c, keepOld) ==
    /\ Len(inserted) < MaxInserts
    /\ ch' = ChangeSet_insert(ch, c, keepOld)
    /\ inserted' = Append(inserted, c)
    /\ ch2' = None
    /\ emitted' = <<>>
    /\ UNCHANGED <<bucket, recorded, walker, status>>

\* tests::account_encoding from `let mut ch2` on: encode ch at block b, decode
\* every pair, rebuild ch2.
account_encoding(b) ==
    /\ ch2 = None
    /\ emitted' = encode(b, ch)
    /\ ch2' = Some(decode_all(encode(b, ch), ChangeSet_default))
    /\ UNCHANGED <<ch, inserted, bucket, recorded, walker, status>>

\* ------------------------------------------------------------------------
\* Block processing: encode a ChangeSet and write it
\* ------------------------------------------------------------------------

\* The block's commit: encode(b, cs) is written into the bucket.  Blocks are
\* written in increasing order.
Persist(b, cs) ==
    /\ CursorFree
    /\ Cardinality(Blocks) < MaxStored
    /\ \A x \in Blocks : x < b
    /\ emitted' = encode(b, cs)
    /\ bucket' = bucket \cup SetOf(encode(b, cs))
    /\ recorded' = recorded \cup {[b |-> b, key |-> cs[i].key, value |-> cs[i].value] :
                                    i \in 1..Len(cs)}
    /\ UNCHANGED <<codec, walker, status>>

\* The store comes to hold a record no encoder wrote: a db_value too short
\* for an address, under the db_key of block b.
Corrupt(b, junk) ==
    /\ CursorFree
    /\ Malformed = {}
    /\ bucket' = bucket \cup {[k |-> encode_block_number(b), v |-> junk]}
    /\ UNCHANGED <<codec, recorded, emitted, walker, status>>

\* ------------------------------------------------------------------------
\* Queries: a Walker over the bucket
\* ------------------------------------------------------------------------

\* walker.walk(from, to)
Walk(from, to) ==
    /\ CursorFree
    /\ asked' = <<from, to>>
    /\ stream' = walk(from, to)
    /\ UNCHANGED <<codec, store, found, status>>

\* The consumer pulls the next item of the stream.
Poll(ioFail) ==
    /\ stream.st = "active"
    /\ stream' = poll(stream, bucket, ioFail)
    /\ UNCHANGED <<codec, store, asked, found, status>>

\* walker.find(block_number, k).await
Find(block_number, k, ioFail) ==
    /\ stream.st = "idle"
    /\ found' = Some([b |-> block_number, k |-> k, io |-> ioFail,
                      r |-> find(bucket, block_number, k, ioFail)])
    /\ UNCHANGED <<codec, store, asked, stream, status>>

\* The stream or the Walker is dropped, which gives the cursor back.
Drop ==
    /\ ~CursorFree
    /\ stream' = NoStream
    /\ found' = None
    /\ asked' = <<0, 0>>
    /\ UNCHANGED <<codec, store, status>>

\* ------------------------------------------------------------------------
\* Sentry
\* ------------------------------------------------------------------------

\* FullStatusData::try_from(sentry)
TryFrom ==
    /\ full = None
    /\ full' = Some(try_from(sentry))
    /\ UNCHANGED <<codec, store, walker, sentry>>

\* The sentry sends another StatusData.
NewStatus(s) ==
    /\ full # None
    /\ sentry' = s
    /\ full' = None
    /\ UNCHANGED <<codec, store, walker>>

\* ------------------------------------------------------------------------
\* Specifications
\* ------------------------------------------------------------------------

\* The blocks a query may name: 3 is never written.
QueryBlocks == BlockSamples \cup {3}

Next ==
    \/ \E b \in BlockSamples, cs \in ChangeSets : Persist(b, cs)
    \/ \E b \in BlockSamples, junk \in ShortValues : Corrupt(b, junk)
    \/ \E from \in BlockSamples, to \in BlockSamples : Walk(from, to)
    \/ \E ioFail \in BOOLEAN : Poll(ioFail)
    \/ \E b \in QueryBlocks, k \in Keys, ioFail \in BOOLEAN : Find(b, k, ioFail)
    \/ Drop

CodecNext ==
    \/ NewChangeSet
    \/ \E c \in Changes, keepOld \in BOOLEAN : Insert(c, keepOld)
    \/ \E b \in BlockSamples : account_encoding(b)

SentryNext ==
    \/ TryFrom
    \/ \E s \in SentryStatus : NewStatus(s)

\* Init with one sentry StatusData: the engine never reads it.
EngineInit == Init /\ sentry = CHOOSE s \in SentryStatus : TRUE

\* The bucket, its writer and a Walker over it.
Spec == EngineInit /\ [][Next]_vars

\* The codec on one ChangeSet at a time.
CodecSpec == EngineInit /\ [][CodecNext]_vars

\* The status conversion.
SentrySpec == Init /\ [][SentryNext]_vars

\* ------------------------------------------------------------------------
\* Properties
\* ------------------------------------------------------------------------

KeysOf(S) == {c.key : c \in S}

UniqueKeys(S) == \A c, d \in S : c.key = d.key => c = d

\* The embedded key of a well-formed db_value.
Embedded(v) == SubSeq(v, 1, ADDRESS_LENGTH)

\* Digit n (0 the lowest) of b in base 256.
RECURSIVE Digit(_, _)
Digit(b, n) == IF n = 0 THEN b % 256 ELSE Digit(b \div 256, n - 1)

\* The pair the persisted layout prescribes for a recorded triple.
Layout(r) ==
    [k |-> [j \in 1..BLOCK_NUMBER_LENGTH |-> Digit(r.b, BLOCK_NUMBER_LENGTH - j)],
     v |-> r.key \o r.value]

\* The recorded triples of the blocks from..to.
InRange(from, to) == {r \in recorded : from <= r.b /\ r.b <= to}

\* C1: once the round trip of the test has run on ch, the rebuilt ChangeSet
\* holds exactly the (key, value) pairs of ch, and when the inserted Changes
\* had unique keys these are exactly the inserted Changes, whatever the order
\* of the insert calls.
C1_RoundTrip ==
    ch2 # None =>
        /\ ch2[1].tag = "ok"
        /\ SetOf(ch2[1].ch) = SetOf(ch)
        /\ UniqueKeys(SetOf(inserted)) => SetOf(ch2[1].ch) = SetOf(inserted)

\* A round trip of two Changes with values, inserted in descending key order.
C1_Witness ==
    /\ ch2 # None
    /\ Len(inserted) = 2
    /\ LexLess(inserted[2].key, inserted[1].key)
    /\ inserted[1].value # <<>>
    /\ Len(ch2[1].ch) = 2

\* C2: on a bucket holding only encoded ChangeSets, a find that the store did
\* not fail answers Some(v) exactly when the ChangeSet recorded at exactly
\* that block holds (k, v), and None otherwise, whatever other blocks hold k.
C2_FindExact ==
    (found # None /\ Malformed = {} /\ ~found[1].io) =>
        LET f == found[1]
        IN  /\ f.r.tag \in {"some", "none"}
            /\ f.r.tag = "some" <=> \E r \in recorded : r.b = f.b /\ r.key = f.k
            /\ f.r.tag = "some" =>
                   [b |-> f.b, key |-> f.k, value |-> f.r.v] \in recorded

\* find(2, k) answered None although blocks 1 and 256 both changed k.
C2_Witness ==
    /\ found # None
    /\ Malformed = {}
    /\ found[1].b = 2
    /\ found[1].r.tag = "none"
    /\ \E r \in recorded : r.b = 1 /\ r.key = found[1].k
    /\ \E r \in recorded : r.b = 256 /\ r.key = found[1].k

\* C3: on a bucket holding only encoded ChangeSets, walk(from, to) yields only
\* recorded triples of blocks in from..to, none twice, each of a written
\* block; once the stream has ended it has yielded all of them (none when the
\* range holds none), and it ended at the end of the bucket or at the first
\* block from `from` on that is past `to`.
C3_WalkContents ==
    (stream.st \in {"active", "done"} /\ Malformed = {}) =>
        /\ SetOf(stream.out) \subseteq InRange(asked[1], asked[2])
        /\ Cardinality(SetOf(stream.out)) = Len(stream.out)
        /\ \A i \in 1..Len(stream.out) : stream.out[i].b \in Blocks
        /\ stream.st = "done" =>
               /\ SetOf(stream.out) = InRange(asked[1], asked[2])
               /\ \/ stream.cur = None
                  \/ \E r \in recorded :
                         /\ Layout(r) = stream.cur[1]
                         /\ r.b >= asked[1] /\ r.b > asked[2]
                         /\ \A q \in recorded :
                                (q.b >= asked[1] /\ q.b > asked[2]) => r.b <= q.b

\* walk(1, 2) ended at block 256 after yielding the two Changes of block 1.
C3_Witness ==
    /\ stream.st = "done"
    /\ Malformed = {}
    /\ asked = <<1, 2>>
    /\ Len(stream.out) = 2
    /\ stream.cur # None

\* C4: in what a walk has yielded, block numbers never decrease, and of two
\* consecutive items of one block the first has the byte-wise smaller key.
C4_WalkOrder ==
    \A i \in 1..(Len(stream.out) - 1) :
        /\ stream.out[i].b <= stream.out[i + 1].b
        /\ stream.out[i].b = stream.out[i + 1].b =>
               LexLess(stream.out[i].key, stream.out[i + 1].key)

\* A walk over two blocks, two Changes in the first.
C4_Witness ==
    /\ Len(stream.out) >= 3
    /\ stream.out[1].b = stream.out[2].b
    /\ stream.out[2].b < stream.out[3].b

\* C5: decoding a stored pair whose db_value is shorter than an address
\* fails with a CorruptData error value.
C5_CorruptRejected ==
    \A p \in Malformed : walk_decoder(p.k, p.v) = Err("CorruptData")

C7_AbortWithCorruptData ==
    (stream.seeked /\ stream.cur # None /\ stream.cur[1] \in Malformed) =>
        stream.st = "corrupt_data"

C9_Layout ==
    /\ bucket \ Malformed = {Layout(r) : r \in recorded}
    /\ Cardinality(bucket \ Malformed) = Cardinality(recorded)
    /\ \A r1, r2 \in recorded : LexLess(Layout(r1).k, Layout(r2).k) <=> r1.b < r2.b
    /\ \A p \in bucket \ Malformed :
           /\ Len(p.k) = BLOCK_NUMBER_LENGTH
           /\ \E r \in recorded : Embedded(p.v) = r.key /\ Len(p.v) = ADDRESS_LENGTH + Len(r.value)
    /\ \A i \in 1..Len(emitted) : emitted[i] \in bucket /\ emitted[i].k = emitted[1].k
    /\ \A i \in 1..(Len(emitted) - 1) :
           LexLess(Embedded(emitted[i].v), Embedded(emitted[i + 1].v))

\* Blocks 1 and 256 written, the later with two Changes, one of them with an
\* empty value.
C9_Witness ==
    /\ Blocks = {1, 256}
    /\ Len(emitted) = 2
    /\ \E i \in 1..2 : Len(emitted[i].v) = ADDRESS_LENGTH
    /\ \E i \in 1..2 : Len(emitted[i].v) > ADDRESS_LENGTH

\* C10: the conversion fails, with no status, when fork_data, its genesis,
\* total_difficulty or best_hash is missing; otherwise it succeeds with
\* network_id, total_difficulty, best_hash and genesis as given, the forks as
\* the ascending duplicate-free sequence of the given list, and the fork filter
\* made of max_block, genesis and the given list.
C10_StatusConversion ==
    full # None =>
        LET r == full[1]
            missing == \/ sentry.fork_data = None
                       \/ sentry.fork_data[1].genesis = None
                       \/ sentry.total_difficulty = None
                       \/ sentry.best_hash = None
        IN  /\ missing => (r.tag = "err" /\ DOMAIN r = {"tag", "e"})
            /\ ~missing =>
                   /\ r.tag = "ok"
                   /\ r.status.network_id = sentry.network_id
                   /\ r.status.total_difficulty = sentry.total_difficulty[1]
                   /\ r.status.best_hash = sentry.best_hash[1]
                   /\ r.status.fork_data.genesis = sentry.fork_data[1].genesis[1]
                   /\ SetOf(r.status.fork_data.forks) = SetOf(sentry.fork_data[1].forks)
                   /\ \A i \in 1..(Len(r.status.fork_data.forks) - 1) :
                          r.status.fork_data.forks[i] < r.status.fork_data.forks[i + 1]
                   /\ r.fork_filter = [max_block |-> sentry.max_block,
                                       genesis |-> sentry.fork_data[1].genesis[1],
                                       forks |-> sentry.fork_data[1].forks]

\* A conversion that succeeded on a fork list given in descending order.
C10_Witness ==
    /\ full # None
    /\ full[1].tag = "ok"
    /\ sentry.fork_data[1].forks = <<20, 10>>
    /\ full[1].status.fork_data.forks = <<10, 20>>

====
